---- MODULE Spec2Model ----
(***************************************************************************)
(* A model of JamfProClient (src/jamfclient/jamfclient.py): the session    *)
(* header written by authenticate / refresh_token, the paginated listing  *)
(* loop shared by get_categories, get_category_history,                   *)
(* get_computer_inventory and get_computers, and the single-request       *)
(* operations.  The server is the environment: it answers every request   *)
(* with a status drawn from Statuses and, on a listing endpoint, with the *)
(* page the request asks for.                                             *)
(***************************************************************************)
EXTENDS Integers, Sequences, FiniteSets

VARIABLES headers,      \* self.session.headers
          pc,           \* "idle": no call is running; "paging": inside a listing's
                        \* while loop; "returned": the call has run its return;
                        \* "again": the caller is about to repeat the listing
          call,         \* the operation being run (or last run) and its arguments
          log,          \* the requests that operation has sent, with the status received
          ret,          \* what the operation returned
          page,         \* local `page` of the listing
          params,       \* local `params` of the listing
          results,      \* local `results` of the listing
          total_pages,  \* local `total_pages` of the listing
          db,           \* server: number of records behind each listing endpoint
          lastToken,    \* server: the token it issued last (0: none yet)
          invalidated,  \* server: the Authorization value it invalidated last and has
                        \* not seen replaced since (PyNone: none)
          prev,         \* the listing call the caller is repeating: its arguments, its
                        \* requests and its value (NoPrev: none)
          thr           \* two threads sharing the client: where each is in its call and
                        \* the response it holds; the order in which they finished

vars == <<headers, pc, call, log, ret, page, params, results, total_pages, db, lastToken,
          invalidated, prev, thr>>

\* What belongs to the repeated call and to the threads
aside == <<prev, thr>>

server == <<db, lastToken, invalidated>>

fetchLocals == <<page, params, results, total_pages>>

----------------------------------------------------------------------------
(* Bounds of the model *)

MaxTotal == 3       \* most records behind one listing endpoint
MaxPageSize == 2    \* largest page_size a caller passes
MaxTokens == 2      \* distinct tokens the server hands out
MaxPage == 6        \* the model follows a listing's loop up to this page
MaxNegative == 1    \* the lowest totalCount a server reports is -MaxNegative

----------------------------------------------------------------------------
(* Python values *)

PyNone == [t |-> "None"]
PyBool(b) == [t |-> "bool", b |-> b]
PyStr(s) == [t |-> "str", s |-> s]          \* a string, as the sequence of its pieces
PyList(v) == [t |-> "list", v |-> v]
PyInt(i) == [t |-> "int", i |-> i]
PyRaise(e) == [t |-> "raise", exc |-> e]    \* the call ended in an exception
Pending == [t |-> "pending"]                \* the call has not returned yet
Json(b) == [t |-> "json", body |-> b]       \* response.json() of a success

\* Python truth value of an argument (`if sort`, `if device_ids`, ...)
Truthy(x) ==
    CASE x.t = "None" -> FALSE
      [] x.t = "bool" -> x.b
      [] x.t = "int"  -> x.i # 0
      [] x.t = "str"  -> x.s # <<>>
      [] x.t = "list" -> x.v # <<>>

\* {k: v}, and the dict d after d[k] = v
Dict(k, v) == [x \in {k} |-> v]
DictSet(d, k, v) == [x \in (DOMAIN d) \cup {k} |-> IF x = k THEN v ELSE d[x]]

\* sep.join(list), as the pieces of the resulting string
RECURSIVE Join(_, _)
Join(sep, l) ==
    IF l = <<>> THEN <<>>
    ELSE IF Len(l) = 1 THEN <<l[1]>>
    ELSE <<l[1], sep>> \o Join(sep, Tail(l))

\* f'<text> - {status}': the literal text of the message and the values put
\* into it; Msg(text) is a message without any
ErrMsg(text, status) == [text |-> text, values |-> <<status>>]
Msg(text) == [text |-> text, values |-> <<>>]
\* {'Error': msg} and [{'Error': msg}]
ErrDict(msg) == [t |-> "errdict", Error |-> msg]
ErrList(msg) == [t |-> "errlist", Error |-> msg]

----------------------------------------------------------------------------
(* The server *)

Statuses == {200, 201, 204, 401, 404, 500, 503}
Tokens == 1..MaxTokens
Ids == {"7"}

CategoriesPath == <<"v1", "categories">>
HistoryPath(id) == <<"v1", "categories", id, "history">>
InventoryPath == <<"v1", "computers-inventory">>
ComputersPath == <<"preview", "computers">>

HistoryPaths == {HistoryPath(id) : id \in Ids}
ListingPaths == {CategoriesPath, InventoryPath, ComputersPath} \cup HistoryPaths

\* The record counts the server may hold: the history collections have
\* theirs, the three other collections share one
DbStates ==
    {[p \in ListingPaths |-> IF p \in HistoryPaths THEN h ELSE n] :
        n \in 0..MaxTotal, h \in 0..MaxTotal}

\* The counts of a server that may also report a negative totalCount
DbStatesAny ==
    {[p \in ListingPaths |-> IF p \in HistoryPaths THEN h ELSE n] :
        n \in (0 - MaxNegative)..MaxTotal, h \in (0 - MaxNegative)..MaxTotal}

\* The records behind a listing endpoint, in server order
Records(path) == [i \in 1..db[path] |-> <<path, i>>]

Min(a, b) == IF a < b THEN a ELSE b

\* The body of a 200 answer to a listing request: page p of the records
\* (p = 0 when the request names no page), and the count the server reports
ServerPage(path, prm) ==
    LET p == IF "page" \in DOMAIN prm THEN prm["page"] ELSE 0
        size == prm["page-size"]
        all == Records(path)
    IN [results |-> SubSeq(all, p * size + 1, Min((p + 1) * size, Len(all))),
        totalCount |-> db[path]]

----------------------------------------------------------------------------
(* Requests *)

NoParams == <<>>
NoJson == [t |-> "None"]

\* self.session.<method>(path, params=..., json=..., auth=...): the request
\* goes out with the session's headers of that moment
Request(method, path, prm, json, basic) ==
    [method |-> method, path |-> path, params |-> prm, json |-> json,
     basic |-> basic, headers |-> headers]

Sent(req, status) == [req |-> req, status |-> status]

\* A constructor that puts the credentials on the session itself
DefaultHeadersWithCredentials ==
    Dict("Authorization", PyStr(<<"Basic", " ", "credentials">>))

\* requests.session(): the library's default headers
DefaultHeaders ==
    DictSet(Dict("User-Agent", PyStr(<<"python-requests">>)), "Accept", PyStr(<<"*/*">>))

\* {'Authorization': f'<scheme> {token}'}
AuthHeader(scheme, token) == Dict("Authorization", PyStr(<<scheme, " ", token>>))

NoCall == [name |-> "none"]
NoPrev == [call |-> NoCall]

\* The threads, and their state before either has started
Threads == {"authenticate", "refresh_token"}
NoResponse == [status |-> 0]
NoThreads == [pc |-> [t \in Threads |-> "ready"],
              response |-> [t \in Threads |-> NoResponse],
              finished |-> <<>>]

\* The Authorization header of a header set, PyNone when it has none
Authorization(h) == IF "Authorization" \in DOMAIN h THEN h["Authorization"] ELSE PyNone

\* __init__: lines 9-18
Init ==
    /\ headers = DefaultHeaders
    /\ pc = "idle"
    /\ call = NoCall
    /\ log = <<>>
    /\ ret = PyNone
    /\ page = 0
    /\ params = NoParams
    /\ results = <<>>
    /\ total_pages = 0
    /\ db \in DbStates
    /\ lastToken = 0
    /\ invalidated = PyNone
    /\ prev = NoPrev
    /\ thr = NoThreads

----------------------------------------------------------------------------
(* Session manager *)

AuthenticateScheme == "Bearer"
RefreshScheme == "Beaerer"

\* authenticate(): lines 20-36
authenticate ==
    /\ pc = "idle"
    /\ call' = [name |-> "authenticate"]
    /\ \E status \in Statuses :
         LET req == Request("POST", <<"v1", "auth", "token">>, NoParams, NoJson, TRUE)
         IN /\ log' = <<Sent(req, status)>>
            /\ IF status = 200
               THEN \E tok \in Tokens :
                      /\ headers' = AuthHeader(AuthenticateScheme, tok)
                      /\ lastToken' = tok
                      /\ invalidated' = PyNone
                      /\ ret' = PyNone
               ELSE /\ ret' = PyStr(<<"Authentication failed!">>)
                    /\ UNCHANGED <<headers, lastToken, invalidated>>
    /\ pc' = "returned"
    /\ UNCHANGED <<fetchLocals, db, aside>>

\* An invalidate_token that drops the session's headers once the server has
\* invalidated the token
invalidate_token_clearing ==
    /\ pc = "idle"
    /\ call' = [name |-> "invalidate_token"]
    /\ \E status \in Statuses :
         LET req == Request("POST", <<"v1", "auth", "invalidate-token">>, NoParams, NoJson, FALSE)
         IN /\ log' = <<Sent(req, status)>>
            /\ ret' = PyBool(status = 204)
            /\ invalidated' = IF status = 204 THEN Authorization(headers) ELSE invalidated
            /\ headers' = IF status = 204 THEN DefaultHeaders ELSE headers
    /\ pc' = "returned"
    /\ UNCHANGED <<lastToken, fetchLocals, db, aside>>

\* invalidate_token(): lines 38-45
invalidate_token ==
    /\ pc = "idle"
    /\ call' = [name |-> "invalidate_token"]
    /\ \E status \in Statuses :
         LET req == Request("POST", <<"v1", "auth", "invalidate-token">>, NoParams, NoJson, FALSE)
         IN /\ log' = <<Sent(req, status)>>
            /\ ret' = PyBool(status = 204)
            /\ invalidated' = IF status = 204 THEN Authorization(headers) ELSE invalidated
    /\ pc' = "returned"
    /\ UNCHANGED <<headers, lastToken, fetchLocals, db, aside>>

\* A refresh_token that assigns the session's headers before it looks at the
\* status, an empty set when the refresh was refused
refresh_token_dropping ==
    /\ pc = "idle"
    /\ call' = [name |-> "refresh_token"]
    /\ \E status \in Statuses :
         LET req == Request("POST", <<"v1", "auth", "keep-alive">>, NoParams, NoJson, FALSE)
         IN /\ log' = <<Sent(req, status)>>
            /\ IF status = 200
               THEN \E tok \in Tokens :
                      /\ headers' = AuthHeader(RefreshScheme, tok)
                      /\ lastToken' = tok
                      /\ invalidated' = PyNone
                      /\ ret' = PyNone
               ELSE /\ ret' = PyStr(<<"Token refresh failed!">>)
                    /\ headers' = NoParams
                    /\ UNCHANGED <<lastToken, invalidated>>
    /\ pc' = "returned"
    /\ UNCHANGED <<fetchLocals, db, aside>>

\* refresh_token(): lines 47-61
refresh_token ==
    /\ pc = "idle"
    /\ call' = [name |-> "refresh_token"]
    /\ \E status \in Statuses :
         LET req == Request("POST", <<"v1", "auth", "keep-alive">>, NoParams, NoJson, FALSE)
         IN /\ log' = <<Sent(req, status)>>
            /\ IF status = 200
               THEN \E tok \in Tokens :
                      /\ headers' = AuthHeader(RefreshScheme, tok)
                      /\ lastToken' = tok
                      /\ invalidated' = PyNone
                      /\ ret' = PyNone
               ELSE /\ ret' = PyStr(<<"Token refresh failed!">>)
                    /\ UNCHANGED <<headers, lastToken, invalidated>>
    /\ pc' = "returned"
    /\ UNCHANGED <<fetchLocals, db, aside>>

----------------------------------------------------------------------------
(* Two threads on one client: one runs authenticate, the other refresh_token.
   Each call is two steps, the request with its answer and then the lines
   after it; the other thread may run in between. *)

ThreadPath(t) ==
    IF t = "authenticate" THEN <<"v1", "auth", "token">> ELSE <<"v1", "auth", "keep-alive">>
ThreadScheme(t) == IF t = "authenticate" THEN AuthenticateScheme ELSE RefreshScheme

\* response = self.session.post(...): lines 25-27 and 52.  The server hands
\* out a new token with every 200
ThreadSend(t) ==
    /\ pc = "idle"
    /\ thr.pc[t] = "ready"
    /\ \E status \in Statuses :
         LET req == Request("POST", ThreadPath(t), NoParams, NoJson, t = "authenticate")
             tok == IF status = 200 THEN lastToken + 1 ELSE 0
         IN /\ log' = Append(log, Sent(req, status))
            /\ lastToken' = IF status = 200 THEN tok ELSE lastToken
            /\ invalidated' = IF status = 200 THEN PyNone ELSE invalidated
            /\ thr' = [thr EXCEPT !.pc[t] = "responded",
                                  !.response[t] = [status |-> status, token |-> tok]]
    /\ UNCHANGED <<headers, pc, call, ret, fetchLocals, db, prev>>

\* A writer that leaves the header alone when it already holds a later token
HeadersAfterIfNewer(t, response) ==
    IF response.status = 200
       /\ (Authorization(headers) = PyNone \/ Authorization(headers).s[3] < response.token)
    THEN AuthHeader(ThreadScheme(t), response.token)
    ELSE headers

\* The session's headers after lines 29-36 (54-61) have run on `response`
HeadersAfter(t, response) ==
    IF response.status = 200 THEN AuthHeader(ThreadScheme(t), response.token) ELSE headers

\* The rest of the call, lines 29-36 and 54-61
ThreadFinish(t) ==
    /\ thr.pc[t] = "responded"
    /\ headers' = HeadersAfter(t, thr.response[t])
    /\ thr' = [thr EXCEPT !.pc[t] = "done", !.finished = Append(thr.finished, t)]
    /\ UNCHANGED <<pc, call, log, ret, fetchLocals, server, prev>>

----------------------------------------------------------------------------
(* Collection fetcher: the listing loop, written out four times in the source *)

PageSizes == 1..MaxPageSize
SortArgs == {PyNone, PyList(<<"name", "id">>)}
FilterArgs == {PyNone, PyStr(<<"f">>)}
SectionsArgs == {PyNone, PyList(<<"GENERAL", "HARDWARE">>)}

\* A page count that rounds up instead of down
TotalPagesRoundedUp(total, page_size) == (total + page_size - 1) \div page_size

\* total_pages = (total//page_size)
TotalPages(total, page_size) == total \div page_size

\* `while page != total_pages`
LoopCondition(p, tp) == p # tp

\* results += response.json()['results']
Accumulate(acc, more) == acc \o more

\* The value a listing returns when its first request is refused ...
InitialFailure(status) == ErrList(ErrMsg("Failed to retrieve records", status))

\* A refused page that hands back what the earlier pages gave
IterationFailurePartial(status) == PyList(results)
\* A refused page reported with the message of the first request
IterationFailureAsInitial(status) == InitialFailure(status)

\* ... and when a later one is
IterationFailure(status) == ErrList(ErrMsg("Failed iteration", status))

\* A listing whose accumulator outlives the call (a list kept across calls)
ListingFirstKeepingResults(c, req) ==
    /\ pc = "idle" \/ (pc = "again" /\ c = prev.call)
    /\ call' = c
    /\ page' = 0
    /\ params' = req.params
    /\ \E status \in Statuses :
         /\ log' = <<Sent(req, status)>>
         /\ IF status = 200
            THEN LET body == ServerPage(req.path, req.params)
                     tp == TotalPages(body.totalCount, c.page_size)
                 IN /\ results' = results \o body.results
                    /\ total_pages' = tp
                    /\ IF LoopCondition(0, tp)
                       THEN pc' = "paging" /\ ret' = Pending
                       ELSE pc' = "returned" /\ ret' = PyList(results')
            ELSE /\ ret' = InitialFailure(status)
                 /\ pc' = "returned"
                 /\ results' = <<>>
                 /\ total_pages' = 0
    /\ UNCHANGED <<headers, server, aside>>

\* The first request of a listing, req, and what follows its answer: an
\* error, the records at once (no further page), or the entry into the loop
ListingFirst(c, req) ==
    /\ pc = "idle" \/ (pc = "again" /\ c = prev.call)
    /\ call' = c
    /\ page' = 0
    /\ params' = req.params
    /\ \E status \in Statuses :
         /\ log' = <<Sent(req, status)>>
         /\ IF status = 200
            THEN LET body == ServerPage(req.path, req.params)
                     tp == TotalPages(body.totalCount, c.page_size)
                 IN /\ results' = body.results
                    /\ total_pages' = tp
                    /\ IF LoopCondition(0, tp)
                       THEN pc' = "paging" /\ ret' = Pending
                       ELSE pc' = "returned" /\ ret' = PyList(body.results)
            ELSE /\ ret' = InitialFailure(status)
                 /\ pc' = "returned"
                 /\ results' = <<>>
                 /\ total_pages' = 0
    /\ UNCHANGED <<headers, server, aside>>

\* One turn of the loop: the next page is asked for at `path`
ListingNext(name, path) ==
    /\ pc = "paging"
    /\ call.name = name
    /\ page < MaxPage
    /\ page' = page + 1
    /\ params' = DictSet(params, "page", page')
    /\ \E status \in Statuses :
         /\ log' = Append(log, Sent(Request("GET", path, params', NoJson, FALSE), status))
         /\ IF status = 200
            THEN LET body == ServerPage(path, params')
                 IN /\ results' = Accumulate(results, body.results)
                    /\ IF LoopCondition(page', total_pages)
                       THEN pc' = "paging" /\ ret' = Pending
                       ELSE pc' = "returned" /\ ret' = PyList(results')
            ELSE /\ ret' = IterationFailure(status)
                 /\ pc' = "returned"
                 /\ UNCHANGED results
    /\ UNCHANGED <<headers, server, call, total_pages, aside>>

\* params['sort'] = ','.join(sort) if sort else ''
SortParam(sort) == IF Truthy(sort) THEN PyStr(Join(",", sort.v)) ELSE PyStr(<<>>)
\* params['filter'] = filter if filter else ''
FilterParam(filter) == IF Truthy(filter) THEN filter ELSE PyStr(<<>>)
\* params['sort'] = ','.join(sort) if sort else None
SortParamOrNone(sort) == IF Truthy(sort) THEN PyStr(Join(",", sort.v)) ELSE PyNone
\* params['sections'] = f'section={"&section=".join(sections)}' if sections else None
SectionsParam(sections) ==
    IF Truthy(sections) THEN PyStr(<<"section=">> \o Join("&section=", sections.v)) ELSE PyNone

\* get_categories(page_size, sort, filter): lines 76-112
get_categories ==
    \E page_size \in PageSizes, sort \in SortArgs, filter \in FilterArgs :
      ListingFirst([name |-> "get_categories", page_size |-> page_size,
                    sort |-> sort, filter |-> filter],
                   Request("GET", CategoriesPath,
                           DictSet(DictSet(Dict("page-size", page_size), "sort", SortParam(sort)),
                                   "filter", FilterParam(filter)),
                           NoJson, FALSE))

get_categories_page == ListingNext("get_categories", CategoriesPath)

\* get_category_history(id, page_size, sort, filter): lines 175-212
get_category_history ==
    \E id \in Ids, page_size \in PageSizes, sort \in SortArgs, filter \in FilterArgs :
      ListingFirst([name |-> "get_category_history", id |-> id, page_size |-> page_size,
                    sort |-> sort, filter |-> filter],
                   Request("GET", HistoryPath(id),
                           DictSet(DictSet(Dict("page-size", page_size), "sort", SortParam(sort)),
                                   "filter", FilterParam(filter)),
                           NoJson, FALSE))

get_category_history_page == ListingNext("get_category_history", CategoriesPath)

\* get_computer_inventory(sections, page_size, sort, filter): lines 243-281
get_computer_inventory ==
    \E sections \in SectionsArgs, page_size \in PageSizes, sort \in SortArgs,
       filter \in FilterArgs :
      ListingFirst([name |-> "get_computer_inventory", sections |-> sections,
                    page_size |-> page_size, sort |-> sort, filter |-> filter],
                   Request("GET", InventoryPath,
                           DictSet(DictSet(Dict("page-size", page_size), "sort",
                                           SortParamOrNone(sort)),
                                   "sections", SectionsParam(sections)),
                           NoJson, FALSE))

get_computer_inventory_page == ListingNext("get_computer_inventory", InventoryPath)

\* get_computers(page_size, sort): lines 283-320
get_computers ==
    \E page_size \in PageSizes, sort \in SortArgs :
      ListingFirst([name |-> "get_computers", page_size |-> page_size, sort |-> sort],
                   Request("GET", ComputersPath,
                           DictSet(Dict("page-size", page_size), "sort", SortParam(sort)),
                           NoJson, FALSE))

get_computers_page == ListingNext("get_computers", ComputersPath)

ListingNames == {"get_categories", "get_category_history", "get_computer_inventory",
                 "get_computers"}

----------------------------------------------------------------------------
(* Operations that send one request *)

Names == {"Laptops"}
Priorities == {9}
Notes == {"checked"}
IdLists == {PyList(<<>>), PyList(<<"7">>)}

\* One request, and the return value R[status] the code makes of its status
Single(c, req, R) ==
    /\ pc = "idle"
    /\ call' = c
    /\ \E status \in Statuses :
         /\ log' = <<Sent(req, status)>>
         /\ ret' = R[status]
    /\ pc' = "returned"
    /\ UNCHANGED <<headers, server, fetchLocals, aside>>

\* A check of the arguments that comes after the request instead of before
NoRequestAfterPost(c, value) ==
    /\ pc = "idle"
    /\ call' = c
    /\ \E status \in Statuses :
         log' = <<Sent(Request("POST", <<>>, NoParams, NoJson, FALSE), status)>>
    /\ ret' = value
    /\ pc' = "returned"
    /\ UNCHANGED <<headers, server, fetchLocals, aside>>

\* No request at all: the call returns `value` before it reaches the network
NoRequest(c, value) ==
    /\ pc = "idle"
    /\ call' = c
    /\ log' = <<>>
    /\ ret' = value
    /\ pc' = "returned"
    /\ UNCHANGED <<headers, server, fetchLocals, aside>>

\* get_auth_details(): lines 63-74.  The failure value wraps response.json(),
\* which raises when the body of the refusal is not JSON
get_auth_details ==
    /\ pc = "idle"
    /\ call' = [name |-> "get_auth_details"]
    /\ \E status \in Statuses, bodyIsJson \in BOOLEAN :
         /\ log' = <<Sent(Request("GET", <<"v1", "auth">>, NoParams, NoJson, FALSE), status)>>
         /\ ret' = IF status = 200 THEN Json(<<"v1", "auth">>)
                   ELSE IF bodyIsJson THEN ErrDict(Json(<<"error", status>>))
                   ELSE PyRaise("JSONDecodeError")
    /\ pc' = "returned"
    /\ UNCHANGED <<headers, server, fetchLocals, aside>>

\* The attributes __init__ gives the client
Attributes == {"base_url", "username", "password", "session"}

\* create_category(name, priority): lines 114-129.  self.base_Url is no
\* attribute of the client: the f-string of the URL raises before any request
create_category ==
    \E name \in Names, priority \in Priorities :
      /\ "base_Url" \notin Attributes
      /\ NoRequest([name |-> "create_category", category |-> name, priority |-> priority],
                   PyRaise("AttributeError"))

\* delete_categories(ids): lines 131-139
delete_categories_ret(status) == PyBool(status = 204)
delete_categories ==
    \E ids \in IdLists :
      Single([name |-> "delete_categories", ids |-> ids],
             Request("POST", <<"v1", "categories", "delete-multiple">>, NoParams,
                     <<<<"ids", ids>>>>, FALSE),
             [s \in Statuses |-> delete_categories_ret(s)])

\* get_category(id): lines 141-151
get_category_ret(status) ==
    IF status = 200 THEN Json(CategoriesPath)
    ELSE ErrDict(ErrMsg("Failed to retrieve category", status))
get_category ==
    \E id \in Ids :
      Single([name |-> "get_category", id |-> id],
             Request("GET", <<"v1", "categories", id>>, NoParams, NoJson, FALSE),
             [s \in Statuses |-> get_category_ret(s)])

\* update_category(id, name, priority): lines 153-164
update_category_ret(status) == PyBool(status = 200)
update_category ==
    \E id \in Ids, name \in Names, priority \in Priorities :
      Single([name |-> "update_category", id |-> id, category |-> name, priority |-> priority],
             Request("PUT", <<"v1", "categories", id>>, NoParams,
                     <<<<"name", name>>, <<"priority", priority>>>>, FALSE),
             [s \in Statuses |-> update_category_ret(s)])

\* remove_category(id): lines 166-173
remove_category_ret(status) == PyBool(status = 204)
remove_category ==
    \E id \in Ids :
      Single([name |-> "remove_category", id |-> id],
             Request("DELETE", <<"v1", "categories", id>>, NoParams, NoJson, FALSE),
             [s \in Statuses |-> remove_category_ret(s)])

\* add_category_note(id, note): lines 214-228.  The if/elif chain names three
\* statuses; on any other the function runs off its end and returns None
add_category_note_ret(status) ==
    CASE status = 201 -> PyBool(TRUE)
      [] status = 404 -> PyBool(FALSE)
      [] status = 503 -> PyBool(FALSE)
      [] OTHER -> PyNone
add_category_note ==
    \E id \in Ids, note \in Notes :
      Single([name |-> "add_category_note", id |-> id, note |-> note],
             Request("POST", HistoryPath(id), NoParams, NoJson, FALSE),
             [s \in Statuses |-> add_category_note_ret(s)])

\* get_computer_groups(): lines 230-241
get_computer_groups_ret(status) ==
    IF status = 200 THEN Json(<<"v1", "computer-groups">>)
    ELSE ErrDict(ErrMsg("Computer group retrieval failed", status))
get_computer_groups ==
    Single([name |-> "get_computer_groups"],
           Request("GET", <<"v1", "computer-groups">>, NoParams, NoJson, FALSE),
           [s \in Statuses |-> get_computer_groups_ret(s)])

UuidArgs == {PyNone, PyList(<<>>), PyList(<<"u1">>)}
MgmtIdArgs == {PyNone, PyStr(<<>>), PyStr(<<"m1">>)}

\* read_mdm_command(uuids, client_mgmt_id): lines 322-341
read_mdm_command_ret(status) ==
    IF status = 200 THEN Json(<<"v1", "mdm", "commands">>)
    ELSE ErrList(ErrMsg("Error retrieving mdm cmd", status))
read_mdm_command_missing == ErrList(Msg("No parameters specified!"))
read_mdm_command ==
    \E uuids \in UuidArgs, client_mgmt_id \in MgmtIdArgs :
      LET c == [name |-> "read_mdm_command", uuids |-> uuids,
                client_mgmt_id |-> client_mgmt_id]
          path == <<"v1", "mdm", "commands">>
      IN IF Truthy(uuids)
         THEN Single(c, Request("GET", path, Dict("uuids", uuids), NoJson, FALSE),
                     [s \in Statuses |-> read_mdm_command_ret(s)])
         ELSE IF Truthy(client_mgmt_id)
         THEN Single(c, Request("GET", path, Dict("client-management-id", client_mgmt_id),
                                NoJson, FALSE),
                     [s \in Statuses |-> read_mdm_command_ret(s)])
         ELSE NoRequest(c, read_mdm_command_missing)

\* get_macos_updates(): lines 343-354
get_macos_updates_ret(status) ==
    IF status = 200 THEN Json(<<"v1", "macos-managed-software-updates", "available-updates">>)
    ELSE ErrDict(ErrMsg("Error retrieving updates", status))
get_macos_updates ==
    Single([name |-> "get_macos_updates"],
           Request("GET", <<"v1", "macos-managed-software-updates", "available-updates">>,
                   NoParams, NoJson, FALSE),
           [s \in Statuses |-> get_macos_updates_ret(s)])

DeviceIdArgs == {PyNone, PyList(<<>>), PyList(<<"d1">>)}
GroupIdArgs == {PyNone, PyInt(0), PyInt(5)}
Deferrals == {2}
Versions == {"13.1"}

\* The payload push_macos_updates builds (lines 360-372), as its items in
\* insertion order; the last key of the literal is the value of force_restart
Payload(a) ==
    <<<<PyStr(<<"maxDeferrals">>), a.max_deferrals>>,
      <<PyStr(<<"version">>), a.version>>,
      <<PyStr(<<"skipVersionVerfication">>), a.skip_version_verification>>,
      <<PyStr(<<"applyMajorUpdate">>), a.apply_major_update>>,
      <<PyStr(<<"updateAction">>), a.update_action>>,
      <<PyBool(a.force_restart), a.force_restart>>>>
    \o (IF Truthy(a.device_ids) THEN <<<<PyStr(<<"deviceIds">>), a.device_ids>>>>
        ELSE IF Truthy(a.group_id) THEN <<<<PyStr(<<"groupId">>), a.group_id>>>>
        ELSE <<>>)

\* What session.post(...) at line 377 is given as the request's body
PushBody(payload) == NoJson

\* push_macos_updates(...): lines 356-387
push_macos_updates_ret(status) ==
    IF status = 200 THEN Json(<<"v1", "macos-managed-software-updates", "send-updates">>)
    ELSE ErrDict(ErrMsg("Error sending updates", status))
push_macos_updates_missing == ErrDict(Msg("No device/group IDs specified."))
push_macos_updates ==
    \E max_deferrals \in Deferrals, version \in Versions, force_restart \in BOOLEAN,
       device_ids \in DeviceIdArgs, group_id \in GroupIdArgs :
      LET c == [name |-> "push_macos_updates", max_deferrals |-> max_deferrals,
                version |-> version, skip_version_verification |-> FALSE,
                apply_major_update |-> FALSE, update_action |-> "DOWNLOAD_AND_INSTALL",
                force_restart |-> force_restart, device_ids |-> device_ids,
                group_id |-> group_id]
      IN IF Truthy(device_ids) \/ Truthy(group_id)
         THEN Single(c, Request("POST",
                                <<"v1", "macos-managed-software-updates", "send-updates">>,
                                NoParams, PushBody(Payload(c)), FALSE),
                     [s \in Statuses |-> push_macos_updates_ret(s)])
         ELSE NoRequest(c, push_macos_updates_missing)

\* The call is over: its frame and its locals are gone, the caller has the
\* value and may call again
Return ==
    /\ pc = "returned"
    /\ pc' = "idle"
    /\ call' = NoCall
    /\ log' = <<>>
    /\ ret' = PyNone
    /\ page' = 0
    /\ params' = NoParams
    /\ results' = <<>>
    /\ total_pages' = 0
    /\ prev' = NoPrev
    /\ UNCHANGED <<headers, server, thr>>

\* The caller has a listing's records and makes the same call once more,
\* with the same arguments; nothing but the client itself is carried over
Again ==
    /\ pc = "returned"
    /\ call.name \in ListingNames
    /\ ret.t = "list"
    /\ prev = NoPrev
    /\ prev' = [call |-> call, log |-> log, ret |-> ret]
    /\ pc' = "again"
    /\ call' = NoCall
    /\ log' = <<>>
    /\ ret' = PyNone
    /\ UNCHANGED <<headers, server, fetchLocals, thr>>

----------------------------------------------------------------------------
(* Properties *)

IsListing == call.name \in ListingNames
Returned == pc = "returned"
AllOk == \A i \in DOMAIN log : log[i].status = 200
LastStatus == log[Len(log)].status
\* The count the first response of the running listing reports
FirstTotalCount == db[log[1].req.path]
\* The session has never been given a token
Unauthenticated == lastToken = 0

\* C1: a listing sends its first request without `page`, then page = 1, 2, ...
\* in order, never more than 1 + floor(totalCount / page_size) requests in
\* all, and exactly that many once it has returned with every status 200.
C1_RequestCount ==
    IsListing =>
      /\ Len(log) >= 1
      /\ "page" \notin DOMAIN log[1].req.params
      /\ \A i \in 2..Len(log) :
           /\ "page" \in DOMAIN log[i].req.params
           /\ log[i].req.params["page"] = i - 1
      /\ AllOk => Len(log) <= 1 + (FirstTotalCount \div call.page_size)
      /\ (Returned /\ AllOk) => Len(log) = 1 + (FirstTotalCount \div call.page_size)

\* A listing over a count that is an exact multiple of page_size has returned
\* after three requests, the last one for a page past the records
C1_Witness ==
    /\ IsListing /\ Returned /\ AllOk
    /\ Len(log) = 3
    /\ FirstTotalCount = 2 * call.page_size

\* C2: in a listing no request follows a refused one, the call has returned
\* as soon as a request is refused, and what it returns is then an error
\* value, not a list of records.
C2_FailureAborts ==
    IsListing =>
      /\ \A i \in 1..(Len(log) - 1) : log[i].status = 200
      /\ LastStatus # 200 =>
           /\ Returned
           /\ ret.t = "errlist"
           /\ ret.t # "list"

\* A later page is refused after earlier pages had given records
C2_Witness ==
    /\ IsListing /\ Returned
    /\ Len(log) >= 2
    /\ LastStatus # 200
    /\ results # <<>>

\* C3 as stated: the error of a refused later page carries the page that
\* failed and the status, and differs from the error of a refused first request.
C3_ErrorNamesPageAndStatus ==
    (IsListing /\ Returned /\ Len(log) >= 2 /\ LastStatus # 200) =>
      /\ ret.t = "errlist"
      /\ \E i \in DOMAIN ret.Error.values : ret.Error.values[i] = LastStatus
      /\ \E i \in DOMAIN ret.Error.values : ret.Error.values[i] = page
      /\ ret # InitialFailure(LastStatus)

\* C3 amended: the error of a refused later page is 'Failed iteration - <status>':
\* it carries the status and nothing else, so it is the same whichever page
\* failed, and it differs from 'Failed to retrieve records - <status>', the
\* error of a refused first request.
C3_ErrorNamesStatusOnly ==
    (IsListing /\ Returned /\ LastStatus # 200) =>
      /\ ret.t = "errlist"
      /\ ret.Error.values = <<LastStatus>>
      /\ Len(log) >= 2 => ret.Error.text = "Failed iteration"
      /\ Len(log) = 1 => ret.Error.text = "Failed to retrieve records"

\* Page 2 is refused with 500
C3_Witness ==
    /\ IsListing /\ Returned
    /\ Len(log) = 3
    /\ page = 2
    /\ LastStatus = 500
    /\ ret = ErrList(ErrMsg("Failed iteration", 500))

AuthTokenPath == <<"v1", "auth", "token">>
SessionNames == {"authenticate", "refresh_token"}
\* The resource operations: every operation but those of the session manager
ResourceNames ==
    ListingNames \cup {"create_category", "delete_categories", "get_category",
                       "update_category", "remove_category", "add_category_note",
                       "get_computer_groups", "read_mdm_command", "get_macos_updates",
                       "push_macos_updates"}

\* C4 as stated: once authenticate or refresh_token has succeeded, the
\* session's Authorization header is `Bearer <token>` for the token of the
\* latest success.
C4_HeaderIsBearerLatest ==
    lastToken # 0 => Authorization(headers) = PyStr(<<"Bearer", " ", lastToken>>)

\* C5: a step of authenticate or refresh_token that is answered with a
\* status other than 200 sends that one request, returns a failure message
\* (it does not raise) and leaves the session's headers as they were.
C5_FailureLeavesSession ==
    [][(pc = "idle" /\ call'.name \in SessionNames /\ log'[1].status # 200) =>
         /\ Len(log') = 1
         /\ pc' = "returned"
         /\ ret'.t = "str"
         /\ headers' = headers
         /\ Authorization(headers') = Authorization(headers)]_vars

\* A refused refresh_token has returned and the session still holds the
\* Authorization header its request went out with
C5_Witness ==
    /\ Returned
    /\ call.name = "refresh_token"
    /\ LastStatus = 401
    /\ ret = PyStr(<<"Token refresh failed!">>)
    /\ Authorization(headers) # PyNone
    /\ Authorization(headers) = Authorization(log[1].req.headers)

\* C6: invalidate_token returns True exactly on a 204 and leaves the session's
\* headers as its request carried them; so from a successful invalidation until
\* authenticate or refresh_token succeeds, the session's Authorization header
\* is the invalidated one, and every request goes out with it.
C6_InvalidateLeavesHeader ==
    /\ (Returned /\ call.name = "invalidate_token") =>
         /\ Len(log) = 1
         /\ ret = PyBool(LastStatus = 204)
         /\ headers = log[1].req.headers
    /\ invalidated # PyNone =>
         /\ Authorization(headers) = invalidated
         /\ \A i \in DOMAIN log : Authorization(log[i].req.headers) = invalidated

\* A resource request has gone out with the token the server had invalidated
C6_Witness ==
    /\ call.name = "get_computer_groups"
    /\ Returned
    /\ invalidated # PyNone
    /\ Authorization(log[1].req.headers) = invalidated

\* C7 as stated: while the session is Unauthenticated the only request sent is
\* the authentication request.
C7_OnlyAuthWhileUnauthenticated ==
    Unauthenticated => \A i \in DOMAIN log : log[i].req.path = AuthTokenPath

\* C7 amended: the client sends the request of whatever operation is called;
\* a request sent while the session is Unauthenticated carries no
\* Authorization header, and only the authentication request carries the
\* credentials.
C7_UnauthenticatedRequestsBare ==
    \A i \in DOMAIN log :
      /\ Unauthenticated => Authorization(log[i].req.headers) = PyNone
      /\ log[i].req.basic <=> log[i].req.path = AuthTokenPath

\* A listing request has gone out from a session that never had a token
C7_Witness ==
    /\ Unauthenticated
    /\ call.name = "get_categories"
    /\ Len(log) >= 1
    /\ Authorization(log[1].req.headers) = PyNone

\* What counts as a failure value: an error structure or False
IsFailureValue(v) == v.t \in {"errdict", "errlist"} \/ v = PyBool(FALSE)

\* C8 as stated: a resource call that went out without an Authorization
\* header and was answered 401 returns a failure value.
C8_UnauthorizedIsFailure ==
    (/\ Returned
     /\ call.name \in ResourceNames
     /\ log # <<>>
     /\ Authorization(log[Len(log)].req.headers) = PyNone
     /\ LastStatus = 401) => IsFailureValue(ret)

\* Neither of the alternative arguments of the running call is given
NoneSupplied ==
    \/ call.name = "push_macos_updates" /\ ~Truthy(call.device_ids) /\ ~Truthy(call.group_id)
    \/ call.name = "read_mdm_command" /\ ~Truthy(call.uuids) /\ ~Truthy(call.client_mgmt_id)

\* C9: push_macos_updates without device_ids and group_id, and
\* read_mdm_command without uuids and client_mgmt_id, return their
\* missing-parameters error and send no request.
C9_MissingParameters ==
    (Returned /\ NoneSupplied) =>
      /\ log = <<>>
      /\ call.name = "push_macos_updates" => ret = ErrDict(Msg("No device/group IDs specified."))
      /\ call.name = "read_mdm_command" => ret = ErrList(Msg("No parameters specified!"))

\* push_macos_updates was called with both arguments left at None
C9_Witness ==
    /\ Returned
    /\ call.name = "push_macos_updates"
    /\ call.device_ids = PyNone
    /\ call.group_id = PyNone
    /\ log = <<>>
    /\ ret.t = "errdict"

\* C10 as stated: a listing that has returned with every status 200 returns
\* the records behind its endpoint, all of them, once each, in server order.
C10_WholeRecordSet ==
    (IsListing /\ Returned /\ AllOk) => ret = PyList(Records(log[1].req.path))

\* The same for the three listings other than get_category_history
C10_OtherListings ==
    (IsListing /\ call.name # "get_category_history" /\ Returned /\ AllOk) =>
      ret = PyList(Records(log[1].req.path))

\* The second of two identical listing calls is running or has returned
Repeating == prev # NoPrev /\ pc \in {"paging", "returned"}

\* C11: the second of two identical listing calls over unchanged records sends
\* the requests the first one sent, in the same order, and, when its requests
\* are answered 200 like the first one's, returns the same sequence of records.
C11_Idempotent ==
    Repeating =>
      /\ call = prev.call
      /\ Len(log) >= 1
      /\ \A i \in DOMAIN log :
           AllOk => (i <= Len(prev.log) /\ log[i].req = prev.log[i].req)
      /\ (Returned /\ AllOk) => (log = prev.log /\ ret = prev.ret)

\* A repeated listing of several pages has returned the records once more
C11_Witness ==
    /\ Repeating /\ Returned /\ AllOk
    /\ Len(log) >= 2
    /\ ret.t = "list"
    /\ Len(ret.v) >= 2
    /\ ret = prev.ret

\* C12 as stated: every later request of a listing is its first request with
\* `page` added: the same method and endpoint, the same other parameters.
C12_SameRequest ==
    IsListing =>
      \A i \in 2..Len(log) :
        /\ log[i].req.method = log[1].req.method
        /\ log[i].req.path = log[1].req.path
        /\ DOMAIN log[i].req.params = DOMAIN log[1].req.params \cup {"page"}
        /\ \A k \in DOMAIN log[1].req.params :
             log[i].req.params[k] = log[1].req.params[k]

\* The same for the three listings other than get_category_history
C12_OtherListings ==
    (IsListing /\ call.name # "get_category_history") =>
      \A i \in 2..Len(log) :
        /\ log[i].req.method = log[1].req.method
        /\ log[i].req.path = log[1].req.path
        /\ DOMAIN log[i].req.params = DOMAIN log[1].req.params \cup {"page"}
        /\ \A k \in DOMAIN log[1].req.params :
             log[i].req.params[k] = log[1].req.params[k]

\* C13 as stated: a listing ends after finitely many requests whatever integer
\* the first response reports as totalCount: inside the loop `page` is below
\* `total_pages`, so each turn brings it one closer to the exit
\* page = total_pages, and a call that has left the loop has returned.
C13_LoopApproachesExit ==
    IsListing =>
      /\ pc \in {"paging", "returned"}
      /\ pc = "paging" => page < total_pages
      /\ Len(log) = page + 1

\* The same for the counts a server has: totalCount >= 0
C13_NonNegativeCounts ==
    (IsListing /\ FirstTotalCount >= 0) =>
      /\ pc \in {"paging", "returned"}
      /\ pc = "paging" => page < total_pages
      /\ Len(log) = page + 1
      /\ Len(log) <= 1 + (FirstTotalCount \div call.page_size)

\* C14 as stated: a call that has ended has not raised, and has returned a
\* value: None only where the method has no other success value (authenticate
\* and refresh_token answered 200).
C14_ValueNeverRaise ==
    Returned =>
      /\ ret.t # "raise"
      /\ ret.t # "pending"
      /\ ret = PyNone => (call.name \in SessionNames /\ log # <<>> /\ LastStatus = 200)

\* What `sort` and `filter` are to be sent as: '' when absent, the elements
\* joined by commas, the filter as it is
ExpectedSort(sort) == IF sort = PyNone THEN PyStr(<<>>) ELSE PyStr(Join(",", sort.v))
ExpectedFilter(filter) == IF filter = PyNone THEN PyStr(<<>>) ELSE filter

\* C15 as stated: every request of a listing carries `sort`, and `filter` where
\* the listing takes one, as '' when the caller left it absent, else the sort
\* elements joined by commas and the filter verbatim.
C15_OptionalParameters ==
    IsListing =>
      \A i \in DOMAIN log :
        LET sent == log[i].req.params
        IN /\ "sort" \in DOMAIN sent
           /\ sent["sort"] = ExpectedSort(call.sort)
           /\ "filter" \in DOMAIN call =>
                /\ "filter" \in DOMAIN sent
                /\ sent["filter"] = ExpectedFilter(call.filter)

\* The same for the three listings other than get_computer_inventory
C15_OtherListings ==
    (IsListing /\ call.name # "get_computer_inventory") =>
      \A i \in DOMAIN log :
        LET sent == log[i].req.params
        IN /\ "sort" \in DOMAIN sent
           /\ sent["sort"] = ExpectedSort(call.sort)
           /\ "filter" \in DOMAIN call =>
                /\ "filter" \in DOMAIN sent
                /\ sent["filter"] = ExpectedFilter(call.filter)

\* The keys the payload of push_macos_updates is to have
PayloadKeys == {"maxDeferrals", "version", "skipVersionVerification", "applyMajorUpdate",
                "updateAction", "forceRestart"}
HasKey(items, k) == \E i \in DOMAIN items : items[i][1] = PyStr(<<k>>)

\* C16 as stated: the request push_macos_updates sends carries the payload,
\* with the six named keys and exactly one of deviceIds / groupId, deviceIds
\* when both arguments are given.
C16_PayloadSent ==
    (call.name = "push_macos_updates" /\ log # <<>>) =>
      LET body == log[1].req.json
      IN /\ body.t = "dict"
         /\ \A k \in PayloadKeys : HasKey(body.items, k)
         /\ HasKey(body.items, "deviceIds") <=> Truthy(call.device_ids)
         /\ HasKey(body.items, "groupId") <=> ~Truthy(call.device_ids)

\* The token of the session's Authorization header
HeaderToken == Authorization(headers).s[3]
\* Both threads have finished their calls, both answered 200
BothSucceeded ==
    \A t \in Threads : thr.pc[t] = "done" /\ thr.response[t].status = 200

\* C17: nothing orders the two threads' writes of the session's headers: once
\* both calls have succeeded the header holds the token of the thread that
\* finished last, whichever token the server issued last.
C17_LastWriterWins ==
    BothSucceeded =>
      /\ Len(thr.finished) = 2
      /\ HeaderToken = thr.response[thr.finished[2]].token
      /\ headers = AuthHeader(ThreadScheme(thr.finished[2]),
                              thr.response[thr.finished[2]].token)

\* Both calls have succeeded and the header holds the token issued first,
\* not the one issued last
C17_Witness ==
    /\ BothSucceeded
    /\ lastToken = 2
    /\ HeaderToken = 1
    /\ HeaderToken # lastToken

----------------------------------------------------------------------------

Next ==
    \/ authenticate
    \/ invalidate_token
    \/ refresh_token
    \/ get_categories
    \/ get_categories_page
    \/ get_category_history
    \/ get_category_history_page
    \/ get_computer_inventory
    \/ get_computer_inventory_page
    \/ get_computers
    \/ get_computers_page
    \/ get_auth_details
    \/ create_category
    \/ delete_categories
    \/ get_category
    \/ update_category
    \/ remove_category
    \/ add_category_note
    \/ get_computer_groups
    \/ read_mdm_command
    \/ get_macos_updates
    \/ push_macos_updates
    \/ Return

Spec == Init /\ [][Next]_vars

\* The listings against a server that may report any totalCount
InitAnyCount ==
    /\ headers = DefaultHeaders
    /\ pc = "idle"
    /\ call = NoCall
    /\ log = <<>>
    /\ ret = PyNone
    /\ page = 0
    /\ params = NoParams
    /\ results = <<>>
    /\ total_pages = 0
    /\ db \in DbStatesAny
    /\ lastToken = 0
    /\ invalidated = PyNone
    /\ prev = NoPrev
    /\ thr = NoThreads

NextListings ==
    \/ get_categories
    \/ get_categories_page
    \/ get_category_history
    \/ get_category_history_page
    \/ get_computer_inventory
    \/ get_computer_inventory_page
    \/ get_computers
    \/ get_computers_page
    \/ Return

SpecAnyCount == InitAnyCount /\ [][NextListings]_vars

\* One client shared by the two threads
NextThreads == \E t \in Threads : ThreadSend(t) \/ ThreadFinish(t)
SpecThreads == Init /\ [][NextThreads]_vars

\* The client with a caller that repeats listings
NextTwice == Next \/ Again
SpecTwice == Init /\ [][NextTwice]_vars

====
